---- MODULE Spec2Model ----
(***************************************************************************)
(* Model of src/src/lexer/lexerSnapshot.ts: the LexerSnapshot assembly     *)
(* (flattenLineTokens, LexerSnapshot.factory, LexerSnapshot.tryFrom) and   *)
(* the ParserContext arena (addChild, endContext, deleteContext, deepCopy).*)
(*                                                                         *)
(* Option<T> is modelled as a set with at most one element: {} stands for  *)
(* undefined and {v} for the value v.                                      *)
(***************************************************************************)
EXTENDS Integers, Sequences, FiniteSets, TLC

VARIABLES
    states,     \* the ParserContext.State objects created so far (1 = the first one)
    arrays,     \* heap of childNodeIds arrays: array reference -> sequence of node ids
    held,       \* held[a][id]: readonly fields of every Node object ever created for states[a]
    issued,     \* issued[a]: ids handed out by addChild for states[a], in order (inherited by a copy)
    last,       \* the last ParserContext call and how it ended
    calls,      \* number of ParserContext calls made so far
    lines,      \* Lexer.State.lines, the input of LexerSnapshot.tryFrom
    pc,         \* where the tryFrom call stands: "tryFrom", "factory" or "returned" ("idle": no call)
    flattenedLines, \* factory's flattenedLines, once flattenLineTokens has run
    flatIndex,  \* factory's loop index
    tokens,     \* factory's tokens
    comments,   \* factory's comments
    reads,      \* per loop iteration of factory: the flat index examined, the index it ended on, the list pushed to
    result      \* what tryFrom returned: {} until it has

arenaVars == <<states, arrays, held, issued, last, calls>>

lexVars == <<lines, pc, flattenedLines, flatIndex, tokens, comments, reads, result>>

vars == <<arenaVars, lexVars>>

\* ------------------------------------------------------------------ bounds

MaxStates == 2          \* State objects alive at once (the original and its copies)
MaxCalls == 6           \* ParserContext calls in one run
MaxInputSize == 4       \* lines plus pieces (line tokens, white space) of one Lexer.State

\* ------------------------------------------------------------------ helpers

Some(S) == CHOOSE x \in S : TRUE

Range(s) == { s[i] : i \in 1..Len(s) }

\* Array.prototype.indexOf, 1-based; 0 stands for -1 (not found)
IndexOf(s, x) ==
    IF x \in Range(s) THEN CHOOSE i \in 1..Len(s) : s[i] = x /\ \A j \in 1..(i - 1) : s[j] # x
    ELSE 0

\* [...s.slice(0, index), ...s.slice(index + 1)] with index = i - 1
RemoveAt(s, i) == SubSeq(s, 1, i - 1) \o SubSeq(s, i + 1, Len(s))

\* the AST fragments endContext is given: a leaf and an inner construct
AstNodes == { [kind |-> "Constant", terminalNode |-> TRUE],
              [kind |-> "BinOpExpression", terminalNode |-> FALSE] }

\* ------------------------------------------------------------------ ParserContext

\* ParserContext.empty
empty ==
    [ root |-> {},
      nodesById |-> << >>,
      terminalNodeIds |-> << >>,
      nodeIdCounter |-> 0 ]

\* ParserContext.maybeGetNode: Map.get, as the id when present
maybeGetNode(nodesById, nodeId) ==
    IF nodeId \in DOMAIN nodesById THEN {nodeId} ELSE {}

\* ParserContext.expectNode throws exactly when the id is not in the map
expectNodeThrows(nodesById, nodeId) == maybeGetNode(nodesById, nodeId) = {}

\* array references some Node of some State still points to
UsedRefs == UNION { { states[a].nodesById[i].childNodeIds : i \in DOMAIN states[a].nodesById } :
                    a \in DOMAIN states }

\* a fresh array object
NewRef == CHOOSE r \in 1..(Cardinality(UsedRefs) + 1) : r \notin UsedRefs

\* the heap without the arrays nothing points to any more
Collect(heap, sts) ==
    LET used == UNION { { sts[a].nodesById[i].childNodeIds : i \in DOMAIN sts[a].nodesById } :
                        a \in DOMAIN sts }
    IN [ r \in (DOMAIN heap) \cap used |-> heap[r] ]

\* a slip: the id taken from the number of nodes in the map, not from the counter
newNodeIdFromSize(state) == Cardinality(DOMAIN state.nodesById) + 1

\* the id addChild gives the new node: the incremented counter
newNodeIdFrom(state) == state.nodeIdCounter + 1

\* ParserContext.addChild(state, maybeParent, nodeKind, tokenStart); maybeParent is {} or
\* {id of a Node of this State}
AddChild(a, maybeParent) ==
    /\ LET st == states[a]
           newNodeId == newNodeIdFrom(st)
           ref == NewRef
           child == [ nodeId |-> newNodeId,
                      maybeParentId |-> maybeParent,
                      childNodeIds |-> ref,
                      maybeAstNode |-> {} ]
           pushed == IF maybeParent = {} THEN arrays
                     ELSE LET pref == st.nodesById[Some(maybeParent)].childNodeIds
                          IN [arrays EXCEPT ![pref] = Append(@, newNodeId)]
       IN /\ arrays' = [ r \in DOMAIN pushed \cup {ref} |->
                            IF r = ref THEN << >> ELSE pushed[r] ]
          /\ states' = [states EXCEPT ![a] =
                          [ st EXCEPT !.nodeIdCounter = newNodeId,
                                      !.nodesById = [ i \in DOMAIN st.nodesById \cup {newNodeId} |->
                                                        IF i = newNodeId THEN child
                                                        ELSE st.nodesById[i] ] ]]
          /\ held' = [held EXCEPT ![a] =
                        [ i \in DOMAIN held[a] \cup {newNodeId} |->
                            IF i = newNodeId THEN [ maybeParentId |-> maybeParent, origin |-> <<a, newNodeId>> ]
                            ELSE held[a][i] ]]
          /\ issued' = [issued EXCEPT ![a] = Append(@, newNodeId)]
          /\ last' = [ op |-> "addChild", state |-> a, arg |-> maybeParent,
                       ret |-> {newNodeId}, threw |-> FALSE ]

\* ParserContext.endContext(state, oldNode, astNode); oldNode is any Node object created for
\* this State, whether or not it is still in nodesById
EndContext(a, nodeId, astNode) ==
    /\ LET st == states[a]
           maybeParentId == held[a][nodeId].maybeParentId
           throws == maybeParentId # {} /\ expectNodeThrows(st.nodesById, Some(maybeParentId))
       IN /\ states' = [states EXCEPT ![a] =
                          [ st EXCEPT !.terminalNodeIds =
                                          IF astNode.terminalNode THEN Append(@, nodeId) ELSE @,
                                      !.nodesById =
                                          IF nodeId \in DOMAIN st.nodesById
                                          THEN [ @ EXCEPT ![nodeId].maybeAstNode = {astNode} ]
                                          ELSE @ ]]
          /\ last' = [ op |-> "endContext", state |-> a, arg |-> {nodeId},
                       ret |-> IF throws THEN {} ELSE maybeParentId, threw |-> throws ]
          /\ UNCHANGED <<arrays, held, issued>>

\* a slip: the children of the node deleted with it
mapDeleteWithChildren(nodesById, nodeId) ==
    [ i \in { k \in DOMAIN nodesById : k # nodeId /\ nodesById[k].maybeParentId # {nodeId} } |->
        nodesById[i] ]

\* nodesById.delete(nodeId)
mapDelete(nodesById, nodeId) ==
    [ i \in (DOMAIN nodesById) \ {nodeId} |-> nodesById[i] ]

\* ParserContext.deleteContext(state, node); node is any Node object created for this State
DeleteContext(a, nodeId) ==
    LET st == states[a]
        maybeParentId == held[a][nodeId].maybeParentId
        missing == nodeId \notin DOMAIN st.nodesById
        deleted == mapDelete(st.nodesById, nodeId)
        terminalIndex == IndexOf(st.terminalNodeIds, nodeId)
        terminals == IF terminalIndex # 0 THEN RemoveAt(st.terminalNodeIds, terminalIndex)
                     ELSE st.terminalNodeIds
        removed == [ st EXCEPT !.nodesById = deleted, !.terminalNodeIds = terminals ]
        parentId == Some(maybeParentId)
        parentMissing == maybeParentId # {} /\ expectNodeThrows(deleted, parentId)
        childNodeIds == arrays[deleted[parentId].childNodeIds]
        childNodeIndex == IndexOf(childNodeIds, nodeId)
        ref == NewRef
    IN IF missing
       THEN /\ last' = [ op |-> "deleteContext", state |-> a, arg |-> {nodeId},
                         ret |-> {}, threw |-> TRUE ]
            /\ UNCHANGED <<states, arrays, held, issued>>
       ELSE IF maybeParentId = {} \/ parentMissing \/ childNodeIndex = 0
       THEN /\ states' = [states EXCEPT ![a] = removed]
            /\ arrays' = Collect(arrays, states')
            /\ last' = [ op |-> "deleteContext", state |-> a, arg |-> {nodeId},
                         ret |-> {}, threw |-> (maybeParentId # {}) ]
            /\ UNCHANGED <<held, issued>>
       ELSE /\ states' = [states EXCEPT ![a] =
                            [ removed EXCEPT !.nodesById[parentId].childNodeIds = ref ]]
            /\ arrays' = Collect([ r \in DOMAIN arrays \cup {ref} |->
                                     IF r = ref THEN RemoveAt(childNodeIds, childNodeIndex)
                                     ELSE arrays[r] ], states')
            /\ last' = [ op |-> "deleteContext", state |-> a, arg |-> {nodeId},
                         ret |-> {parentId}, threw |-> FALSE ]
            /\ UNCHANGED <<held, issued>>

\* ParserContext.deepCopyNode: the spread copies the childNodeIds reference, not the array
deepCopyNode(node) ==
    [ nodeId |-> node.nodeId,
      maybeParentId |-> node.maybeParentId,
      childNodeIds |-> node.childNodeIds,
      maybeAstNode |-> node.maybeAstNode ]

\* a slip: the copy starts counting ids afresh
deepCopyOfFreshCounter(state) ==
    LET nodesById == [ key \in DOMAIN state.nodesById |-> deepCopyNode(state.nodesById[key]) ]
    IN [ root |-> maybeGetNode(nodesById, 0),
         nodesById |-> nodesById,
         terminalNodeIds |-> state.terminalNodeIds,
         nodeIdCounter |-> 0 ]

\* the State deepCopy returns
deepCopyOf(state) ==
    LET nodesById == [ key \in DOMAIN state.nodesById |-> deepCopyNode(state.nodesById[key]) ]
    IN [ root |-> maybeGetNode(nodesById, 0),
         nodesById |-> nodesById,
         terminalNodeIds |-> state.terminalNodeIds,
         nodeIdCounter |-> state.nodeIdCounter ]

\* ParserContext.deepCopy(state)
DeepCopy(a) ==
    /\ Len(states) < MaxStates
    /\ states' = Append(states, deepCopyOf(states[a]))
    /\ held' = Append(held, [ i \in DOMAIN states[a].nodesById |-> held[a][i] ])
    /\ issued' = Append(issued, issued[a])
    /\ last' = [ op |-> "deepCopy", state |-> a, arg |-> {},
                 ret |-> {Len(states) + 1}, threw |-> FALSE ]
    /\ UNCHANGED arrays

\* ------------------------------------------------------------------ ParserContext properties

\* the child ids of a node of a State
ChildIdsOf(a, nodeId) == arrays[states[a].nodesById[nodeId].childNodeIds]

\* what C1 speaks of: a State's node set, every node's child-id list and AST result
ViewOf(a) ==
    [ nodeId \in DOMAIN states[a].nodesById |->
        [ childNodeIds |-> ChildIdsOf(a, nodeId),
          maybeAstNode |-> states[a].nodesById[nodeId].maybeAstNode ] ]

\* the same in the next state
ViewOfNext(a) ==
    [ nodeId \in DOMAIN states'[a].nodesById |->
        [ childNodeIds |-> arrays'[states'[a].nodesById[nodeId].childNodeIds],
          maybeAstNode |-> states'[a].nodesById[nodeId].maybeAstNode ] ]

\* the step is a call of one of these operations
Called(ops) == calls' = calls + 1 /\ last'.op \in ops

\* C1: an addChild, endContext or deleteContext call on one State (with that State's own
\* nodes) changes no other State's node set, child-id lists or AST results, whichever of the
\* two is the copy.
C1_CopyIsolated ==
    [][ Called({"addChild", "endContext", "deleteContext"}) =>
            \A a \in DOMAIN states : a # last'.state => ViewOfNext(a) = ViewOf(a) ]_vars

\* ids a State has freed with deleteContext
FreedIds(a) == Range(issued[a]) \ DOMAIN states[a].nodesById

\* C5: addChild returns an id greater than every id addChild returned before on that State
\* (the ids a copy inherited included), no call lowers a State's nodeIdCounter, and deepCopy
\* gives the copy the counter of the original.
C5_CounterIncreases ==
    [][ /\ \A a \in DOMAIN states : states'[a].nodeIdCounter >= states[a].nodeIdCounter
        /\ Called({"addChild"}) =>
              /\ \A i \in Range(issued[last'.state]) : Some(last'.ret) > i
              /\ states'[last'.state].nodeIdCounter > states[last'.state].nodeIdCounter
              /\ Some(last'.ret) \in DOMAIN states'[last'.state].nodesById
        /\ Called({"deepCopy"}) =>
              states'[Some(last'.ret)].nodeIdCounter = states[last'.state].nodeIdCounter ]_vars

\* C5 witness: addChild has returned on a copy that had freed an id before
C5_Witness ==
    /\ last.op = "addChild"
    /\ last.state = 2
    /\ FreedIds(2) # {}
    /\ Len(issued[2]) >= 2

\* no id occurs twice in a sequence of ids
NoDuplicates(ids) == \A i, j \in 1..Len(ids) : ids[i] = ids[j] => i = j

\* C6 as stated: no id is issued twice by a State, and an id that two States both know
\* denotes the same logical node (the node one addChild call created) in both.
C6_NoAliasAnywhere ==
    /\ \A a \in DOMAIN states : NoDuplicates(issued[a])
    /\ \A a, b \in DOMAIN states : \A i \in DOMAIN held[a] \cap DOMAIN held[b] :
          held[a][i].origin = held[b][i].origin

\* C6 amended: within one State, the ids it inherited included, addChild never issues an id
\* twice, so an id freed by deleteContext does not come back and every node of the map has
\* an id that was issued once.
C6_NoReuseWithinState ==
    \A a \in DOMAIN states :
        /\ NoDuplicates(issued[a])
        /\ DOMAIN states[a].nodesById \subseteq Range(issued[a])
        /\ \A i \in DOMAIN held[a] : held[a][i].origin[2] = i

\* C6 witness: a State and its copy, one of which issued an id after it had freed one
C6_Witness ==
    /\ Len(states) = 2
    /\ last.op = "addChild"
    /\ FreedIds(last.state) # {}
    /\ Some(last.ret) > 1

\* C7: a deleteContext call on a node with a parent that returns normally returns the
\* parent; afterwards the parent's child ids, the node map and the terminal ids are without
\* the node's id, and the parent's other child ids are in the order they were in.
C7_DeleteUnlinks ==
    [][ (Called({"deleteContext"}) /\ ~last'.threw /\ held[last'.state][Some(last'.arg)].maybeParentId # {}) =>
            LET a == last'.state
                nodeId == Some(last'.arg)
                parentId == Some(held[a][nodeId].maybeParentId)
            IN /\ last'.ret = {parentId}
               /\ nodeId \notin DOMAIN states'[a].nodesById
               /\ nodeId \notin Range(states'[a].terminalNodeIds)
               /\ nodeId \notin Range(arrays'[states'[a].nodesById[parentId].childNodeIds])
               /\ arrays'[states'[a].nodesById[parentId].childNodeIds] =
                     SelectSeq(ChildIdsOf(a, parentId), LAMBDA i : i # nodeId) ]_vars

\* C11: an addChild call with no parent on a State that has no root makes the new node the
\* State's root.
C11_RootCreated ==
    [][ (Called({"addChild"}) /\ last'.arg = {} /\ states[last'.state].root = {}) =>
            states'[last'.state].root = last'.ret ]_vars

\* C12: every id in the child ids of a node of a State is a key of that State's node map.
C12_ChildIdsLive ==
    \A a \in DOMAIN states : \A nodeId \in DOMAIN states[a].nodesById :
        Range(ChildIdsOf(a, nodeId)) \subseteq DOMAIN states[a].nodesById

\* C13: the AST result of a node changes only in an endContext call on that node, and only
\* from absent to present.
C13_AstAssignedOnce ==
    [][ \A a \in DOMAIN states : \A nodeId \in DOMAIN states[a].nodesById \cap DOMAIN states'[a].nodesById :
            states'[a].nodesById[nodeId].maybeAstNode # states[a].nodesById[nodeId].maybeAstNode =>
                /\ states[a].nodesById[nodeId].maybeAstNode = {}
                /\ Called({"endContext"})
                /\ last'.state = a
                /\ last'.arg = {nodeId} ]_vars

\* the first node addChild ever created for a State (or for the State it was copied from) is
\* still in the node map: by the rule of root creation it is the State's root
HasFirstNode(a) == issued[a] # << >> /\ issued[a][1] \in DOMAIN states[a].nodesById

\* C17: deepCopy of a State that has a root returns a State whose root is the copy's node
\* with the id of the original's root.
C17_CopyKeepsRoot ==
    [][ (Called({"deepCopy"}) /\ HasFirstNode(last'.state)) =>
            LET copy == Some(last'.ret)
            IN /\ states'[copy].root = { issued[last'.state][1] }
               /\ states'[copy].root \subseteq DOMAIN states'[copy].nodesById ]_vars

\* the fields of a node of a State, its child ids as their values
NodeOf(a, nodeId) ==
    [ maybeParentId |-> states[a].nodesById[nodeId].maybeParentId,
      childNodeIds |-> ChildIdsOf(a, nodeId),
      maybeAstNode |-> states[a].nodesById[nodeId].maybeAstNode ]

\* the same in the next state
NodeOfNext(a, nodeId) ==
    [ maybeParentId |-> states'[a].nodesById[nodeId].maybeParentId,
      childNodeIds |-> arrays'[states'[a].nodesById[nodeId].childNodeIds],
      maybeAstNode |-> states'[a].nodesById[nodeId].maybeAstNode ]

\* C18: a deleteContext call on a node of the map removes that node and no other; every
\* other node but the parent, the children of the deleted node included, keeps its parent
\* id, child ids and AST result, the parent keeps its parent id and AST result, and the
\* nodes of the other States are as they were.
C18_DeleteOnlyNamed ==
    [][ (Called({"deleteContext"}) /\ Some(last'.arg) \in DOMAIN states[last'.state].nodesById) =>
            LET a == last'.state
                nodeId == Some(last'.arg)
                maybeParentId == held[a][nodeId].maybeParentId
            IN /\ DOMAIN states'[a].nodesById = (DOMAIN states[a].nodesById) \ {nodeId}
               /\ \A i \in DOMAIN states'[a].nodesById :
                     IF {i} = maybeParentId
                     THEN /\ NodeOfNext(a, i).maybeParentId = NodeOf(a, i).maybeParentId
                          /\ NodeOfNext(a, i).maybeAstNode = NodeOf(a, i).maybeAstNode
                     ELSE NodeOfNext(a, i) = NodeOf(a, i)
               /\ \A b \in DOMAIN states : b # a => ViewOfNext(b) = ViewOf(b) ]_vars

\* C18 witness: deleteContext has removed a node that had a child with an AST result and
\* child ids of its own; the child is in the map and its parent id names no node
C18_Witness ==
    /\ last.op = "deleteContext"
    /\ ~last.threw
    /\ \E i \in DOMAIN states[last.state].nodesById :
          /\ states[last.state].nodesById[i].maybeParentId = last.arg
          /\ last.arg \cap DOMAIN states[last.state].nodesById = {}
          /\ states[last.state].nodesById[i].maybeAstNode # {}
          /\ ChildIdsOf(last.state, i) # << >>

\* C20: the terminal ids of a State hold no id twice, and hold exactly the ids of the nodes
\* of the map whose AST result is a terminal construct.
C20_TerminalIdsExact ==
    \A a \in DOMAIN states :
        /\ NoDuplicates(states[a].terminalNodeIds)
        /\ Range(states[a].terminalNodeIds) =
              { i \in DOMAIN states[a].nodesById :
                  \E astNode \in states[a].nodesById[i].maybeAstNode : astNode.terminalNode }

\* ------------------------------------------------------------------ Lexer.State inputs

RECURSIVE Concat(_)
Concat(ss) == IF ss = << >> THEN << >> ELSE Head(ss) \o Concat(Tail(ss))

\* Language.LineTokenKind: the kinds factory's switch names, and Identifier for the kinds
\* that take the default case
LineTokenKinds ==
    { "LineComment", "MultilineComment",
      "MultilineCommentStart", "MultilineCommentContent", "MultilineCommentEnd",
      "QuotedIdentifierStart", "QuotedIdentifierContent", "QuotedIdentifierEnd",
      "TextLiteralStart", "TextLiteralContent", "TextLiteralEnd",
      "Identifier" }

\* the code units a line token of each kind covers in its line's text; Q is the double
\* quote, H L a surrogate pair (one grapheme of two code units)
KindText ==
    [ k \in LineTokenKinds |->
        CASE k = "LineComment" -> <<"/", "/">>
          [] k = "MultilineComment" -> <<"/", "*", "*", "/">>
          [] k = "MultilineCommentStart" -> <<"/", "*">>
          [] k = "MultilineCommentContent" -> <<"c">>
          [] k = "MultilineCommentEnd" -> <<"*", "/">>
          [] k = "QuotedIdentifierStart" -> <<"#", "Q">>
          [] k = "QuotedIdentifierContent" -> <<"H", "L">>
          [] k = "QuotedIdentifierEnd" -> <<"Q">>
          [] k = "TextLiteralStart" -> <<"Q">>
          [] k = "TextLiteralContent" -> <<"H", "L">>
          [] k = "TextLiteralEnd" -> <<"Q">>
          [] OTHER -> <<"x">> ]

\* line terminators: none, line feed, carriage return + line feed
Terminators == { << >>, <<"LF">>, <<"CR", "LF">> }

\* what a line's text is made of: line tokens, and white space no line token covers
LinePieces == LineTokenKinds \cup { "Whitespace" }

\* the code units of a piece
PieceText(piece) == IF piece = "Whitespace" THEN <<" ">> ELSE KindText[piece]

\* a Lexer.TLine whose text is these pieces in a row, with one line token per piece that is
\* not white space, at the offsets of the piece
LineOf(pieces, terminator) ==
    LET startOf(j) == Len(Concat([ i \in 1..(j - 1) |-> PieceText(pieces[i]) ]))
        at == SelectSeq([ j \in 1..Len(pieces) |-> j ], LAMBDA j : pieces[j] # "Whitespace")
    IN [ text |-> Concat([ i \in 1..Len(pieces) |-> PieceText(pieces[i]) ]),
         lineTerminator |-> terminator,
         tokens |-> [ t \in 1..Len(at) |->
                        [ kind |-> pieces[at[t]],
                          data |-> KindText[pieces[at[t]]],
                          positionStart |-> startOf(at[t]),
                          positionEnd |-> startOf(at[t]) + Len(KindText[pieces[at[t]]]) ] ] ]

\* the ways to cut k pieces into n lines: cut[i] pieces lie in the first i lines
Cuts(n, k) ==
    IF n = 0 THEN { c \in { << >> } : k = 0 }
    ELSE { c \in [1..n -> 0..k] : c[n] = k /\ \A i \in 1..(n - 1) : c[i] <= c[i + 1] }

\* the Lexer.State.lines of n lines that holds these pieces, cut this way
LinesOf(n, pieces, cut, terms) ==
    [ i \in 1..n |->
        LineOf(SubSeq(pieces, (IF i = 1 THEN 0 ELSE cut[i - 1]) + 1, cut[i]), terms[i]) ]

\* ------------------------------------------------------------------ flattenLineTokens

\* String.prototype.substring: both ends clamped to the text, swapped when start > end
Substring(text, indexStart, indexEnd) ==
    LET clamp(i) == IF i < 0 THEN 0 ELSE IF i > Len(text) THEN Len(text) ELSE i
        lo == IF clamp(indexStart) <= clamp(indexEnd) THEN clamp(indexStart) ELSE clamp(indexEnd)
        hi == IF clamp(indexStart) <= clamp(indexEnd) THEN clamp(indexEnd) ELSE clamp(indexStart)
    IN SubSeq(text, lo + 1, hi)

\* a slip: the terminator appended after the last line too
appendedTextAlways(ls, lineNumber) ==
    ls[lineNumber + 1].text \o ls[lineNumber + 1].lineTerminator

\* what one line adds to the text: its text and, unless it is the last line, its terminator
appendedText(ls, lineNumber) ==
    IF lineNumber # Len(ls) - 1
    THEN ls[lineNumber + 1].text \o ls[lineNumber + 1].lineTerminator
    ELSE ls[lineNumber + 1].text

\* one pass of flattenLineTokens' loop over the lines, from lineNumber on
RECURSIVE flattenFrom(_, _, _)
flattenFrom(ls, lineNumber, acc) ==
    IF ~(lineNumber < Len(ls)) THEN acc
    ELSE LET line == ls[lineNumber + 1]
             text == acc.text \o appendedText(ls, lineNumber)
             flat == [ j \in 1..Len(line.tokens) |->
                         [ kind |-> line.tokens[j].kind,
                           data |-> line.tokens[j].data,
                           positionStart |->
                               [ codeUnit |-> acc.lineTextOffset + line.tokens[j].positionStart,
                                 lineCodeUnit |-> line.tokens[j].positionStart,
                                 lineNumber |-> lineNumber ],
                           positionEnd |->
                               [ codeUnit |-> acc.lineTextOffset + line.tokens[j].positionEnd,
                                 lineCodeUnit |-> line.tokens[j].positionEnd,
                                 lineNumber |-> lineNumber ],
                           flatIndex |-> acc.flatIndex + (j - 1) ] ]
             lineTerminatorCodeUnit == acc.lineTextOffset + Len(line.text)
         IN flattenFrom(ls, lineNumber + 1,
                [ text |-> text,
                  lineTerminators |-> Append(acc.lineTerminators,
                        [ codeUnit |-> lineTerminatorCodeUnit, text |-> line.lineTerminator ]),
                  flatLineTokens |-> acc.flatLineTokens \o flat,
                  lineTextOffset |-> lineTerminatorCodeUnit + Len(line.lineTerminator),
                  flatIndex |-> acc.flatIndex + Len(line.tokens) ])

\* flattenLineTokens(state)
flattenLineTokens(ls) ==
    LET done == flattenFrom(ls, 0, [ text |-> << >>, lineTerminators |-> << >>,
                                     flatLineTokens |-> << >>, lineTextOffset |-> 0,
                                     flatIndex |-> 0 ])
    IN [ text |-> done.text,
         lineTerminators |-> done.lineTerminators,
         flatLineTokens |-> done.flatLineTokens ]

\* ------------------------------------------------------------------ graphemePositionStartFrom

\* the grapheme clusters of a text, as their lengths in code units: a surrogate pair and
\* a CR LF pair are one cluster each
RECURSIVE splitGraphemes(_)
splitGraphemes(text) ==
    IF text = << >> THEN << >>
    ELSE IF Len(text) >= 2 /\ ( (text[1] = "H" /\ text[2] = "L") \/ (text[1] = "CR" /\ text[2] = "LF") )
    THEN << 2 >> \o splitGraphemes(SubSeq(text, 3, Len(text)))
    ELSE << 1 >> \o splitGraphemes(Tail(text))

RECURSIVE SumTo(_, _)
SumTo(ns, i) == IF i = 0 THEN 0 ELSE ns[i] + SumTo(ns, i - 1)

\* StringUtils.graphemePositionFrom: the column is the number of grapheme clusters of the
\* text that start before lineCodeUnit
graphemePositionFrom(text, lineCodeUnit, lineNumber, codeUnit) ==
    LET graphemes == splitGraphemes(text)
    IN [ lineCodeUnit |-> lineCodeUnit,
         lineNumber |-> lineNumber,
         columnNumber |-> Cardinality({ g \in 1..Len(graphemes) : SumTo(graphemes, g - 1) < lineCodeUnit }),
         maybeCodeUnit |-> codeUnit ]

\* the scan of graphemePositionStartFrom over the line terminators, from index i on
RECURSIVE substringBounds(_, _, _, _, _)
substringBounds(lineTerminators, i, positionStart, positionEnd, bounds) ==
    IF i > Len(lineTerminators) THEN bounds
    ELSE LET lineTerminator == lineTerminators[i]
             started == IF lineTerminator.codeUnit < positionStart.codeUnit
                        THEN [ bounds EXCEPT !.start = lineTerminator.codeUnit + Len(lineTerminator.text) ]
                        ELSE bounds
         IN IF lineTerminator.codeUnit >= positionEnd.codeUnit
            THEN [ started EXCEPT !.end = lineTerminator.codeUnit + Len(lineTerminator.text) ]
            ELSE substringBounds(lineTerminators, i + 1, positionStart, positionEnd, started)

\* a slip: the global offset passed where the offset in the line is meant
graphemePositionStartFromGlobal(text, lineTerminators, flatLineToken) ==
    LET positionStart == flatLineToken.positionStart
        positionEnd == flatLineToken.positionEnd
        bounds == substringBounds(lineTerminators, 1, positionStart, positionEnd,
                                  [ start |-> 0, end |-> Len(text) ])
    IN graphemePositionFrom(Substring(text, bounds.start, bounds.end),
                            positionStart.codeUnit, positionStart.lineNumber,
                            positionEnd.codeUnit)

\* LexerSnapshot.graphemePositionStartFrom(text, lineTerminators, flatLineToken)
graphemePositionStartFrom(text, lineTerminators, flatLineToken) ==
    LET positionStart == flatLineToken.positionStart
        positionEnd == flatLineToken.positionEnd
        bounds == substringBounds(lineTerminators, 1, positionStart, positionEnd,
                                  [ start |-> 0, end |-> Len(text) ])
    IN graphemePositionFrom(Substring(text, bounds.start, bounds.end),
                            positionStart.lineCodeUnit, positionStart.lineNumber,
                            positionEnd.codeUnit)

\* ------------------------------------------------------------------ LexerSnapshot.factory

\* readLineComment(flatToken)
readLineComment(flatToken) ==
    [ kind |-> "Line",
      data |-> flatToken.data,
      containsNewline |-> TRUE,
      positionStart |-> flatToken.positionStart,
      positionEnd |-> flatToken.positionEnd ]

\* a slip: containsNewline copied from readLineComment
readSingleLineMultilineCommentAsLine(flatToken) ==
    [ kind |-> "Multiline",
      data |-> flatToken.data,
      containsNewline |-> TRUE,
      positionStart |-> flatToken.positionStart,
      positionEnd |-> flatToken.positionEnd ]

\* readSingleLineMultilineComment(flatToken)
readSingleLineMultilineComment(flatToken) ==
    [ kind |-> "Multiline",
      data |-> flatToken.data,
      containsNewline |-> flatToken.positionStart.lineNumber # flatToken.positionEnd.lineNumber,
      positionStart |-> flatToken.positionStart,
      positionEnd |-> flatToken.positionEnd ]

\* the index collectWhileContent's loop stops at
RECURSIVE collectFrom(_, _, _)
collectFrom(flatTokens, index, contentKind) ==
    IF index < Len(flatTokens) /\ flatTokens[index + 1].kind = contentKind
    THEN collectFrom(flatTokens, index + 1, contentKind)
    ELSE index

\* collectWhileContent(flatTokens, tokenStart, contentKind)
collectWhileContent(flatTokens, tokenStart, contentKind) ==
    LET stop == collectFrom(flatTokens, tokenStart.flatIndex + 1, contentKind)
    IN [ tokenStart |-> tokenStart,
         collectedTokens |-> SubSeq(flatTokens, tokenStart.flatIndex + 2, stop),
         maybeTokenEnd |-> IF stop < Len(flatTokens) THEN { flatTokens[stop + 1] } ELSE {} ]

\* new LexError.UnterminatedMultilineTokenError(templates, graphemePosition, kind)
UnterminatedMultilineTokenError(graphemePosition, kind) ==
    [ name |-> "UnterminatedMultilineTokenError", kind |-> kind, position |-> {graphemePosition} ]

\* new CommonError.InvariantError(message, details)
InvariantError ==
    [ name |-> "InvariantError", kind |-> "", position |-> {} ]

\* a slip: whatever token follows the content is taken for the end of the comment
readMultilineCommentAnyEnd(flattened, tokenStart) ==
    LET collection == collectWhileContent(flattened.flatLineTokens, tokenStart, "MultilineCommentContent")
        maybeTokenEnd == collection.maybeTokenEnd
        tokenEnd == Some(maybeTokenEnd)
    IN IF maybeTokenEnd = {}
       THEN [ thrown |-> { UnterminatedMultilineTokenError(
                             graphemePositionStartFrom(flattened.text, flattened.lineTerminators, tokenStart),
                             "MultilineComment") },
              read |-> {} ]
       ELSE [ thrown |-> {},
              read |-> { [ out |-> [ kind |-> "Multiline",
                                     data |-> Substring(flattened.text, tokenStart.positionStart.codeUnit,
                                                        tokenEnd.positionEnd.codeUnit),
                                     containsNewline |-> tokenStart.positionStart.lineNumber #
                                                         tokenEnd.positionEnd.lineNumber,
                                     positionStart |-> tokenStart.positionStart,
                                     positionEnd |-> tokenEnd.positionEnd ],
                           flatIndexEnd |-> tokenEnd.flatIndex ] } ]

\* readMultilineComment(localizationTemplates, flattenedLines, tokenStart): what it throws,
\* or the ConcatenatedCommentRead it returns
readMultilineComment(flattened, tokenStart) ==
    LET collection == collectWhileContent(flattened.flatLineTokens, tokenStart, "MultilineCommentContent")
        maybeTokenEnd == collection.maybeTokenEnd
        tokenEnd == Some(maybeTokenEnd)
    IN IF maybeTokenEnd = {}
       THEN [ thrown |-> { UnterminatedMultilineTokenError(
                             graphemePositionStartFrom(flattened.text, flattened.lineTerminators, tokenStart),
                             "MultilineComment") },
              read |-> {} ]
       ELSE IF tokenEnd.kind # "MultilineCommentEnd"
       THEN [ thrown |-> { InvariantError }, read |-> {} ]
       ELSE [ thrown |-> {},
              read |-> { [ out |-> [ kind |-> "Multiline",
                                     data |-> Substring(flattened.text, tokenStart.positionStart.codeUnit,
                                                        tokenEnd.positionEnd.codeUnit),
                                     containsNewline |-> tokenStart.positionStart.lineNumber #
                                                         tokenEnd.positionEnd.lineNumber,
                                     positionStart |-> tokenStart.positionStart,
                                     positionEnd |-> tokenEnd.positionEnd ],
                           flatIndexEnd |-> tokenEnd.flatIndex ] } ]

\* a slip: the merged identifier ends where its start token ends
readQuotedIdentifierShort(flattened, tokenStart) ==
    LET collection == collectWhileContent(flattened.flatLineTokens, tokenStart, "QuotedIdentifierContent")
        maybeTokenEnd == collection.maybeTokenEnd
        tokenEnd == Some(maybeTokenEnd)
    IN IF maybeTokenEnd = {}
       THEN [ thrown |-> { UnterminatedMultilineTokenError(
                             graphemePositionStartFrom(flattened.text, flattened.lineTerminators, tokenStart),
                             "QuotedIdentifier") },
              read |-> {} ]
       ELSE IF tokenEnd.kind # "QuotedIdentifierEnd"
       THEN [ thrown |-> { InvariantError }, read |-> {} ]
       ELSE [ thrown |-> {},
              read |-> { [ out |-> [ kind |-> "Identifier",
                                     data |-> Substring(flattened.text, tokenStart.positionStart.codeUnit,
                                                        tokenStart.positionEnd.codeUnit),
                                     positionStart |-> tokenStart.positionStart,
                                     positionEnd |-> tokenStart.positionEnd ],
                           flatIndexEnd |-> tokenEnd.flatIndex ] } ]

\* readQuotedIdentifier(localizationTemplates, flattenedLines, tokenStart)
readQuotedIdentifier(flattened, tokenStart) ==
    LET collection == collectWhileContent(flattened.flatLineTokens, tokenStart, "QuotedIdentifierContent")
        maybeTokenEnd == collection.maybeTokenEnd
        tokenEnd == Some(maybeTokenEnd)
    IN IF maybeTokenEnd = {}
       THEN [ thrown |-> { UnterminatedMultilineTokenError(
                             graphemePositionStartFrom(flattened.text, flattened.lineTerminators, tokenStart),
                             "QuotedIdentifier") },
              read |-> {} ]
       ELSE IF tokenEnd.kind # "QuotedIdentifierEnd"
       THEN [ thrown |-> { InvariantError }, read |-> {} ]
       ELSE [ thrown |-> {},
              read |-> { [ out |-> [ kind |-> "Identifier",
                                     data |-> Substring(flattened.text, tokenStart.positionStart.codeUnit,
                                                        tokenEnd.positionEnd.codeUnit),
                                     positionStart |-> tokenStart.positionStart,
                                     positionEnd |-> tokenEnd.positionEnd ],
                           flatIndexEnd |-> tokenEnd.flatIndex ] } ]

\* a slip: the run reported to end one flat token before its end token
readTextLiteralEndsEarly(flattened, tokenStart) ==
    LET collection == collectWhileContent(flattened.flatLineTokens, tokenStart, "TextLiteralContent")
        maybeTokenEnd == collection.maybeTokenEnd
        tokenEnd == Some(maybeTokenEnd)
    IN IF maybeTokenEnd = {}
       THEN [ thrown |-> { UnterminatedMultilineTokenError(
                             graphemePositionStartFrom(flattened.text, flattened.lineTerminators, tokenStart),
                             "Text") },
              read |-> {} ]
       ELSE IF tokenEnd.kind # "TextLiteralEnd"
       THEN [ thrown |-> { InvariantError }, read |-> {} ]
       ELSE [ thrown |-> {},
              read |-> { [ out |-> [ kind |-> "TextLiteral",
                                     data |-> Substring(flattened.text, tokenStart.positionStart.codeUnit,
                                                        tokenEnd.positionEnd.codeUnit),
                                     positionStart |-> tokenStart.positionStart,
                                     positionEnd |-> tokenEnd.positionEnd ],
                           flatIndexEnd |-> tokenEnd.flatIndex - 1 ] } ]

\* readTextLiteral(localizationTemplates, flattenedLines, tokenStart)
readTextLiteral(flattened, tokenStart) ==
    LET collection == collectWhileContent(flattened.flatLineTokens, tokenStart, "TextLiteralContent")
        maybeTokenEnd == collection.maybeTokenEnd
        tokenEnd == Some(maybeTokenEnd)
    IN IF maybeTokenEnd = {}
       THEN [ thrown |-> { UnterminatedMultilineTokenError(
                             graphemePositionStartFrom(flattened.text, flattened.lineTerminators, tokenStart),
                             "Text") },
              read |-> {} ]
       ELSE IF tokenEnd.kind # "TextLiteralEnd"
       THEN [ thrown |-> { InvariantError }, read |-> {} ]
       ELSE [ thrown |-> {},
              read |-> { [ out |-> [ kind |-> "TextLiteral",
                                     data |-> Substring(flattened.text, tokenStart.positionStart.codeUnit,
                                                        tokenEnd.positionEnd.codeUnit),
                                     positionStart |-> tokenStart.positionStart,
                                     positionEnd |-> tokenEnd.positionEnd ],
                           flatIndexEnd |-> tokenEnd.flatIndex ] } ]

\* LexError.isTInnerLexError(e)
isTInnerLexError(e) == e.name = "UnterminatedMultilineTokenError"

\* a slip: what factory had assembled when it threw, returned as a snapshot
errFromPartial(e) ==
    [ kind |-> "Ok", error |-> {},
      value |-> { [ text |-> flattenedLines.text, tokens |-> tokens, comments |-> comments,
                    lineTerminators |-> flattenedLines.lineTerminators ] } ]

\* the catch block of LexerSnapshot.tryFrom
errFrom(e) ==
    IF isTInnerLexError(e)
    THEN [ kind |-> "Err", error |-> { [ name |-> "LexError", innerError |-> {e} ] }, value |-> {} ]
    ELSE [ kind |-> "Err", error |-> { [ name |-> "CommonError", innerError |-> {e} ] }, value |-> {} ]

\* ResultUtils.okFactory(new LexerSnapshot(text, tokens, comments, lineTerminators))
okFrom(text, toks, cmts, lineTerminators) ==
    [ kind |-> "Ok", error |-> {},
      value |-> { [ text |-> text, tokens |-> toks, comments |-> cmts,
                    lineTerminators |-> lineTerminators ] } ]

\* the flat token factory's loop is at
FlatToken == flattenedLines.flatLineTokens[flatIndex + 1]

\* factory's loop is at a flat token of one of these kinds
At(kinds) ==
    /\ pc = "factory"
    /\ flatIndex < Len(flattenedLines.flatLineTokens)
    /\ FlatToken.kind \in kinds

\* tryFrom calls factory, which first flattens the lines
Flatten ==
    /\ pc = "tryFrom"
    /\ flattenedLines' = flattenLineTokens(lines)
    /\ flatIndex' = 0
    /\ tokens' = << >>
    /\ comments' = << >>
    /\ pc' = "factory"
    /\ UNCHANGED <<lines, reads, result, arenaVars>>

\* a slip: flatIndex not moved to the end of the run that was read
AdvanceByOne(from, to, pushedTo) ==
    /\ flatIndex' = from + 1
    /\ reads' = Append(reads, [ flatIndex |-> from, flatIndexEnd |-> to, pushedTo |-> pushedTo ])
    /\ UNCHANGED <<lines, pc, flattenedLines, result, arenaVars>>

\* the end of every case of the switch that did not throw: flatIndex += 1
Advance(from, to, pushedTo) ==
    /\ flatIndex' = to + 1
    /\ reads' = Append(reads, [ flatIndex |-> from, flatIndexEnd |-> to, pushedTo |-> pushedTo ])
    /\ UNCHANGED <<lines, pc, flattenedLines, result, arenaVars>>

\* a throw inside factory, caught by tryFrom
Throw(e) ==
    /\ result' = { errFrom(e) }
    /\ pc' = "returned"
    /\ UNCHANGED <<lines, flattenedLines, flatIndex, tokens, comments, reads, arenaVars>>

\* case LineTokenKind.LineComment
CaseLineComment ==
    /\ At({"LineComment"})
    /\ comments' = Append(comments, readLineComment(FlatToken))
    /\ UNCHANGED tokens
    /\ Advance(flatIndex, flatIndex, "comments")

\* case LineTokenKind.MultilineComment
CaseMultilineComment ==
    /\ At({"MultilineComment"})
    /\ comments' = Append(comments, readSingleLineMultilineComment(FlatToken))
    /\ UNCHANGED tokens
    /\ Advance(flatIndex, flatIndex, "comments")

\* case LineTokenKind.MultilineCommentStart
CaseMultilineCommentStart ==
    /\ At({"MultilineCommentStart"})
    /\ LET concatenatedTokenRead == readMultilineComment(flattenedLines, FlatToken)
       IN IF concatenatedTokenRead.thrown # {}
          THEN Throw(Some(concatenatedTokenRead.thrown))
          ELSE /\ comments' = Append(comments, Some(concatenatedTokenRead.read).out)
               /\ UNCHANGED tokens
               /\ Advance(flatIndex, Some(concatenatedTokenRead.read).flatIndexEnd, "comments")

\* case LineTokenKind.QuotedIdentifierStart
CaseQuotedIdentifierStart ==
    /\ At({"QuotedIdentifierStart"})
    /\ LET concatenatedTokenRead == readQuotedIdentifier(flattenedLines, FlatToken)
       IN IF concatenatedTokenRead.thrown # {}
          THEN Throw(Some(concatenatedTokenRead.thrown))
          ELSE /\ tokens' = Append(tokens, Some(concatenatedTokenRead.read).out)
               /\ UNCHANGED comments
               /\ Advance(flatIndex, Some(concatenatedTokenRead.read).flatIndexEnd, "tokens")

\* case LineTokenKind.TextLiteralStart
CaseTextLiteralStart ==
    /\ At({"TextLiteralStart"})
    /\ LET concatenatedTokenRead == readTextLiteral(flattenedLines, FlatToken)
       IN IF concatenatedTokenRead.thrown # {}
          THEN Throw(Some(concatenatedTokenRead.thrown))
          ELSE /\ tokens' = Append(tokens, Some(concatenatedTokenRead.read).out)
               /\ UNCHANGED comments
               /\ Advance(flatIndex, Some(concatenatedTokenRead.read).flatIndexEnd, "tokens")

\* the kinds factory's switch has a case for
SwitchKinds ==
    { "LineComment", "MultilineComment", "MultilineCommentStart", "QuotedIdentifierStart",
      "TextLiteralStart" }

\* default: the flat token becomes a token of the same kind
CaseDefault ==
    /\ At(LineTokenKinds \ SwitchKinds)
    /\ tokens' = Append(tokens, [ kind |-> FlatToken.kind,
                                  data |-> FlatToken.data,
                                  positionStart |-> FlatToken.positionStart,
                                  positionEnd |-> FlatToken.positionEnd ])
    /\ UNCHANGED comments
    /\ Advance(flatIndex, flatIndex, "tokens")

\* the loop is over: factory returns the snapshot and tryFrom wraps it
Return ==
    /\ pc = "factory"
    /\ ~(flatIndex < Len(flattenedLines.flatLineTokens))
    /\ result' = { okFrom(flattenedLines.text, tokens, comments, flattenedLines.lineTerminators) }
    /\ pc' = "returned"
    /\ UNCHANGED <<lines, flattenedLines, flatIndex, tokens, comments, reads, arenaVars>>

\* LexerSnapshot.tryFrom(state), step by step
TryFrom ==
    \/ Flatten
    \/ CaseLineComment
    \/ CaseMultilineComment
    \/ CaseMultilineCommentStart
    \/ CaseQuotedIdentifierStart
    \/ CaseTextLiteralStart
    \/ CaseDefault
    \/ Return

\* ------------------------------------------------------------------ LexerSnapshot properties

FlatTokens == flattenedLines.flatLineTokens

\* the kinds that start a multiline construct, with the content and end kinds that match,
\* the kind of what the run merges into and the kind an unterminated run is reported with
StartKinds == { "MultilineCommentStart", "QuotedIdentifierStart", "TextLiteralStart" }

ContentKindOf(kind) ==
    CASE kind = "MultilineCommentStart" -> "MultilineCommentContent"
      [] kind = "QuotedIdentifierStart" -> "QuotedIdentifierContent"
      [] kind = "TextLiteralStart" -> "TextLiteralContent"

EndKindOf(kind) ==
    CASE kind = "MultilineCommentStart" -> "MultilineCommentEnd"
      [] kind = "QuotedIdentifierStart" -> "QuotedIdentifierEnd"
      [] kind = "TextLiteralStart" -> "TextLiteralEnd"

MergedKindOf(kind) ==
    CASE kind = "MultilineCommentStart" -> "Multiline"
      [] kind = "QuotedIdentifierStart" -> "Identifier"
      [] kind = "TextLiteralStart" -> "TextLiteral"

UnterminatedKindOf(kind) ==
    CASE kind = "MultilineCommentStart" -> "MultilineComment"
      [] kind = "QuotedIdentifierStart" -> "QuotedIdentifier"
      [] kind = "TextLiteralStart" -> "Text"

ListOf(kind) == IF kind = "MultilineCommentStart" THEN "comments" ELSE "tokens"

\* tryFrom has returned a success, or a failure
ReturnedOk == pc = "returned" /\ \E r \in result : r.kind = "Ok"

ReturnedErr == pc = "returned" /\ \E r \in result : r.kind = "Err"

\* the snapshot, the failure and the error factory threw, once returned
Snapshot == Some(Some(result).value)

Failure == Some(Some(result).error)

Thrown == Some(Failure.innerError)

\* what the j-th iteration of factory's loop pushed
OutputOf(j) ==
    LET nth == Cardinality({ i \in 1..j : reads[i].pushedTo = reads[j].pushedTo })
    IN IF reads[j].pushedTo = "tokens" THEN tokens[nth] ELSE comments[nth]

\* the j-th iteration examined a start token
ReadStart(j) == FlatTokens[reads[j].flatIndex + 1].kind \in StartKinds

\* the j-th iteration pushed the one merged token or comment of the run its start token opens
MergedRun(j) ==
    LET tokenStart == FlatTokens[reads[j].flatIndex + 1]
        tokenEnd == FlatTokens[reads[j].flatIndexEnd + 1]
        out == OutputOf(j)
    IN /\ reads[j].flatIndex < reads[j].flatIndexEnd
       /\ reads[j].flatIndexEnd < Len(FlatTokens)
       /\ tokenEnd.kind = EndKindOf(tokenStart.kind)
       /\ \A i \in (reads[j].flatIndex + 1)..(reads[j].flatIndexEnd - 1) :
             FlatTokens[i + 1].kind = ContentKindOf(tokenStart.kind)
       /\ reads[j].pushedTo = ListOf(tokenStart.kind)
       /\ out.kind = MergedKindOf(tokenStart.kind)
       /\ out.positionStart = tokenStart.positionStart
       /\ out.positionEnd = tokenEnd.positionEnd
       /\ out.data = SubSeq(flattenedLines.text, tokenStart.positionStart.codeUnit + 1,
                            tokenEnd.positionEnd.codeUnit)

\* every start token examined so far gave one merged output, and nothing inside its run
\* was examined on its own
StartsMerged ==
    /\ Len(tokens) + Len(comments) = Len(reads)
    /\ \A i, j \in 1..Len(reads) : reads[i].flatIndex = reads[j].flatIndex => i = j
    /\ \A j \in 1..Len(reads) : ReadStart(j) =>
          /\ MergedRun(j)
          /\ \A i \in 1..Len(reads) :
                ~(reads[j].flatIndex < reads[i].flatIndex /\ reads[i].flatIndex <= reads[j].flatIndexEnd)

\* the index of the first flat token after the content run of the start token at index i
AfterContent(i) == collectFrom(FlatTokens, i + 1, ContentKindOf(FlatTokens[i + 1].kind))

\* C2 as stated: a start token the pass reaches gives exactly one merged token or comment
\* (start position, end position of the matching end token, text of that span), or the pass
\* fails with UnterminatedMultilineToken.
C2_MergedOrUnterminated ==
    /\ StartsMerged
    /\ ReturnedErr => Thrown.name = "UnterminatedMultilineTokenError"

\* C2 amended: as C2, with the third outcome: the pass fails with UnterminatedMultilineToken
\* when no token follows the start token's content run, and with an internal fault when a
\* token follows it that is not of the matching end kind.
C2_MergedOrFailed ==
    /\ StartsMerged
    /\ ReturnedErr =>
          /\ flatIndex < Len(FlatTokens)
          /\ FlatTokens[flatIndex + 1].kind \in StartKinds
          /\ IF AfterContent(flatIndex) >= Len(FlatTokens)
             THEN Thrown.name = "UnterminatedMultilineTokenError"
             ELSE /\ Thrown.name = "InvariantError"
                  /\ FlatTokens[AfterContent(flatIndex) + 1].kind # EndKindOf(FlatTokens[flatIndex + 1].kind)

\* C2 witness: a run of start, content and end was merged and the pass went on to succeed
C2_Witness ==
    /\ ReturnedOk
    /\ \E j \in 1..Len(reads) : ReadStart(j) /\ reads[j].flatIndexEnd >= reads[j].flatIndex + 2

\* every flat token was read in exactly one iteration of the loop
AllRead ==
    \A i \in 0..(Len(FlatTokens) - 1) :
        Cardinality({ j \in 1..Len(reads) : reads[j].flatIndex <= i /\ i <= reads[j].flatIndexEnd }) = 1

\* C3: tryFrom returns one of a success with the complete snapshot, a lex error for an
\* unterminated multiline token, or a common error; a failure carries no snapshot and a
\* snapshot is never what was assembled before a failure.
C3_OneOfThree ==
    /\ pc # "returned" => result = {}
    /\ pc = "returned" =>
          /\ Cardinality(result) = 1
          /\ \/ /\ Some(result).kind = "Ok"
                /\ Some(result).error = {}
                /\ Cardinality(Some(result).value) = 1
                /\ Snapshot.text = flattenedLines.text
                /\ Snapshot.lineTerminators = flattenedLines.lineTerminators
                /\ Snapshot.tokens = tokens
                /\ Snapshot.comments = comments
                /\ Len(tokens) + Len(comments) = Len(reads)
                /\ AllRead
             \/ /\ Some(result).kind = "Err"
                /\ Some(result).value = {}
                /\ Cardinality(Some(result).error) = 1
                /\ Failure.name = "LexError"
                /\ Thrown.name = "UnterminatedMultilineTokenError"
             \/ /\ Some(result).kind = "Err"
                /\ Some(result).value = {}
                /\ Cardinality(Some(result).error) = 1
                /\ Failure.name = "CommonError"
                /\ Thrown.name = "InvariantError"

\* C3 witness: tryFrom returned a failure after factory had pushed tokens and comments
C3_Witness ==
    /\ ReturnedErr
    /\ tokens # << >>
    /\ comments # << >>

\* the start token at flat index i is followed by content tokens of its kind only
DanglingStart(i) ==
    /\ FlatTokens[i + 1].kind \in StartKinds
    /\ AfterContent(i) >= Len(FlatTokens)

\* the column of an offset in a line: the code units before it, a surrogate pair counted once
ColumnIn(lineText, lineCodeUnit) ==
    Cardinality({ u \in 1..lineCodeUnit : ~(u > 1 /\ lineText[u] = "L" /\ lineText[u - 1] = "H") })

\* tryFrom failed with UnterminatedMultilineToken for the start token at flat index i
UnterminatedAt(i) ==
    LET positionStart == FlatTokens[i + 1].positionStart
    IN /\ ReturnedErr
       /\ Failure.name = "LexError"
       /\ Thrown.name = "UnterminatedMultilineTokenError"
       /\ Thrown.kind = UnterminatedKindOf(FlatTokens[i + 1].kind)
       /\ \E position \in Thrown.position :
             /\ position.lineNumber = positionStart.lineNumber
             /\ position.columnNumber =
                   ColumnIn(lines[positionStart.lineNumber + 1].text, positionStart.lineCodeUnit)

\* C4 as stated: a start token followed by nothing but its content tokens makes the
\* assembly fail with UnterminatedMultilineToken, with its kind and its line and column.
C4_DanglingFails ==
    pc = "returned" => \A i \in 0..(Len(FlatTokens) - 1) : DanglingStart(i) => UnterminatedAt(i)

\* C4 amended: it does when the pass reaches the start token; otherwise the pass has failed
\* before it with an internal fault, at an earlier start token whose content run is followed
\* by a token that is not its end token.
C4_DanglingFailsWhenReached ==
    pc = "returned" =>
        \A i \in 0..(Len(FlatTokens) - 1) : DanglingStart(i) =>
            \/ flatIndex = i /\ UnterminatedAt(i)
            \/ /\ flatIndex < i
               /\ ReturnedErr
               /\ Thrown.name = "InvariantError"
               /\ FlatTokens[flatIndex + 1].kind \in StartKinds

\* C4 witness: the failure is reported for a start token that is not the first of its line,
\* on a line that is not the first
C4_Witness ==
    /\ ReturnedErr
    /\ Thrown.name = "UnterminatedMultilineTokenError"
    /\ DanglingStart(flatIndex)
    /\ UnterminatedAt(flatIndex)
    /\ \E position \in Thrown.position : position.lineNumber >= 1 /\ position.columnNumber >= 1

\* C8 as stated: the text is every line's text followed by that line's terminator, in order.
C8_TextIsAllLines ==
    ReturnedOk =>
        Snapshot.text = Concat([ i \in 1..Len(lines) |-> lines[i].text \o lines[i].lineTerminator ])

\* C8 amended: the same, but the terminator of the last line is left out.
C8_TextIsLinesButLastTerminator ==
    ReturnedOk =>
        Snapshot.text =
            Concat([ i \in 1..Len(lines) |->
                       IF i < Len(lines) THEN lines[i].text \o lines[i].lineTerminator
                       ELSE lines[i].text ])

\* C8 witness: a snapshot of several lines, the first and the last with a terminator
C8_Witness ==
    /\ ReturnedOk
    /\ Len(lines) >= 2
    /\ lines[1].lineTerminator # << >>
    /\ lines[Len(lines)].lineTerminator # << >>
    /\ lines[1].text # << >>

\* the tokens and comments, and the line terminators, whose span holds an offset
Covering(offset) ==
    { <<"token", i>> : i \in { n \in 1..Len(Snapshot.tokens) :
          Snapshot.tokens[n].positionStart.codeUnit <= offset /\
          offset < Snapshot.tokens[n].positionEnd.codeUnit } } \cup
    { <<"comment", i>> : i \in { n \in 1..Len(Snapshot.comments) :
          Snapshot.comments[n].positionStart.codeUnit <= offset /\
          offset < Snapshot.comments[n].positionEnd.codeUnit } }

TerminatorsAt(offset) ==
    { n \in 1..Len(Snapshot.lineTerminators) :
        Snapshot.lineTerminators[n].codeUnit <= offset /\
        offset < Snapshot.lineTerminators[n].codeUnit + Len(Snapshot.lineTerminators[n].text) }

\* the token or comment a pair of Covering names
Element(c) == IF c[1] = "token" THEN Snapshot.tokens[c[2]] ELSE Snapshot.comments[c[2]]

\* well-formed input: the line tokens of every line tile the line's text
Tiled ==
    \A n \in 1..Len(lines) :
        LET line == lines[n]
        IN /\ line.tokens = << >> => line.text = << >>
           /\ line.tokens # << >> =>
                 /\ line.tokens[1].positionStart = 0
                 /\ line.tokens[Len(line.tokens)].positionEnd = Len(line.text)
                 /\ \A t \in 1..(Len(line.tokens) - 1) :
                       line.tokens[t].positionEnd = line.tokens[t + 1].positionStart

C10_ContainsNewline ==
    \A n \in 1..Len(comments) :
        comments[n].kind = "Multiline" =>
            ( (comments[n].containsNewline = FALSE) <=>
              (comments[n].positionStart.lineNumber = comments[n].positionEnd.lineNumber) )

\* C10 witness: the snapshot holds a Multiline comment merged from a run that ends on a
\* later line than it starts on
C10_Witness ==
    /\ ReturnedOk
    /\ \E n \in 1..Len(Snapshot.comments) :
          /\ Snapshot.comments[n].kind = "Multiline"
          /\ Snapshot.comments[n].containsNewline
          /\ Snapshot.comments[n].positionStart.lineNumber < Snapshot.comments[n].positionEnd.lineNumber

\* the global offset at which the text of the n-th line ends
LineEndOffset(n) ==
    Len(Concat([ i \in 1..(n - 1) |-> lines[i].text \o lines[i].lineTerminator ])) + Len(lines[n].text)

\* C14: the line terminators are strictly increasing by offset, one per line, each at the
\* global offset at which its line's text ends.
C14_TerminatorsStrictlyIncrease ==
    pc \in {"factory", "returned"} =>
        LET lineTerminators == flattenedLines.lineTerminators
        IN /\ Len(lineTerminators) = Len(lines)
           /\ \A n \in 1..Len(lineTerminators) :
                 /\ lineTerminators[n].codeUnit = LineEndOffset(n)
                 /\ lineTerminators[n].text = lines[n].lineTerminator
           /\ \A n \in 1..(Len(lineTerminators) - 1) :
                 lineTerminators[n].codeUnit < lineTerminators[n + 1].codeUnit

\* the content and end kinds of the multiline constructs
ContentKinds == { ContentKindOf(kind) : kind \in StartKinds }

EndKinds == { EndKindOf(kind) : kind \in StartKinds }

\* C15: a snapshot holds no token of a multiline start, content or end kind, and every
\* content or end flat token of its input lies inside a run that was merged.
C15_NoPartialConstruct ==
    ReturnedOk =>
        /\ \A n \in 1..Len(Snapshot.tokens) :
              Snapshot.tokens[n].kind \notin StartKinds \cup ContentKinds \cup EndKinds
        /\ \A i \in 0..(Len(FlatTokens) - 1) :
              FlatTokens[i + 1].kind \in ContentKinds \cup EndKinds =>
                  \E j \in 1..Len(reads) :
                      ReadStart(j) /\ reads[j].flatIndex < i /\ i <= reads[j].flatIndexEnd

\* the index of the first flat token after index i that is not of the content kind of the
\* start token at i; the length of the stream when there is none
FirstAfterRun(i) ==
    LET after == { e \in (i + 1)..(Len(FlatTokens) - 1) :
                     FlatTokens[e + 1].kind # ContentKindOf(FlatTokens[i + 1].kind) }
    IN IF after = {} THEN Len(FlatTokens)
       ELSE CHOOSE e \in after : \A other \in after : e <= other

\* the start token at flat index i has, after its content tokens, a token that is not its end
IllTerminated(i) ==
    /\ FlatTokens[i + 1].kind \in StartKinds
    /\ FirstAfterRun(i) < Len(FlatTokens)
    /\ FlatTokens[FirstAfterRun(i) + 1].kind # EndKindOf(FlatTokens[i + 1].kind)

\* C16: when the first token after a start token and its content tokens is not the matching
\* end token, tryFrom returns a common error that wraps an invariant error: no snapshot and
\* no UnterminatedMultilineToken.
C16_WrongEndIsInternalFault ==
    (pc = "returned" /\ \E i \in 0..(Len(FlatTokens) - 1) : IllTerminated(i)) =>
        /\ ReturnedErr
        /\ Some(result).value = {}
        /\ Failure.name = "CommonError"
        /\ Thrown.name = "InvariantError"
        /\ IllTerminated(flatIndex)

\* C16 witness: the pass failed at a start token that has content tokens and then a token
\* that is not its end
C16_Witness ==
    /\ ReturnedErr
    /\ Thrown.name = "InvariantError"
    /\ flatIndex < Len(FlatTokens)
    /\ IllTerminated(flatIndex)
    /\ FirstAfterRun(flatIndex) > flatIndex + 1

\* the pass has only moved forward: flat indexes are positions, the loop examines the flat
\* tokens in order, after a start token next the token after the run's end token, and every
\* iteration pushed one token or comment
MovedForward ==
    /\ \A i \in 1..Len(FlatTokens) : FlatTokens[i].flatIndex = i - 1
    /\ Len(tokens) + Len(comments) = Len(reads)
    /\ \A j \in 1..Len(reads) :
          /\ reads[j].flatIndex = IF j = 1 THEN 0 ELSE reads[j - 1].flatIndexEnd + 1
          /\ reads[j].flatIndexEnd = IF ReadStart(j) THEN FirstAfterRun(reads[j].flatIndex)
                                     ELSE reads[j].flatIndex
          /\ reads[j].flatIndexEnd < Len(FlatTokens)
    /\ \A i, j \in 1..Len(reads) : i < j => reads[i].flatIndexEnd < reads[j].flatIndex
    /\ pc = "factory" =>
          flatIndex = IF reads = << >> THEN 0 ELSE reads[Len(reads)].flatIndexEnd + 1
    /\ flatIndex <= Len(FlatTokens)

\* C19: the pass over a finite flat token stream ends, and it only moves forward.
C19_ForwardAndTerminates ==
    /\ [] MovedForward
    /\ <>(pc = "returned")

\* C19 witness: the pass has ended after it merged a run and examined the token after it
C19_Witness ==
    /\ ReturnedOk
    /\ \E j \in 1..(Len(reads) - 1) : ReadStart(j) /\ reads[j].flatIndexEnd > reads[j].flatIndex

\* the text window graphemePositionStartFrom cuts for a token or comment of the snapshot
WindowOf(element) ==
    substringBounds(Snapshot.lineTerminators, 1, element.positionStart, element.positionEnd,
                    [ start |-> 0, end |-> Len(Snapshot.text) ])

\* the tokens and comments of the snapshot
Elements == Range(Snapshot.tokens) \cup Range(Snapshot.comments)

\* the window of an element encloses its span and begins where the line of its start begins
WindowAtLineStart(element) ==
    /\ WindowOf(element).start <= element.positionStart.codeUnit
    /\ element.positionEnd.codeUnit <= WindowOf(element).end
    /\ WindowOf(element).start = element.positionStart.codeUnit - element.positionStart.lineCodeUnit

\* C21: for every token and comment of a snapshot, merged ones included, the window
\* graphemePositionStartFrom cuts encloses the span and begins at the start of the line that
\* holds the span's start.
C21_WindowAtLineStart ==
    ReturnedOk => \A element \in Elements : WindowAtLineStart(element)

\* C22: an endContext or deleteContext call that throws leaves every State as it was: node
\* map, child ids, terminal ids, AST results and id counter.
C22_FailureLeavesArena ==
    [][ (Called({"endContext", "deleteContext"}) /\ last'.threw) =>
            /\ states' = states
            /\ arrays' = arrays ]_vars

\* ------------------------------------------------------------------ specifications

\* no tryFrom call is under way
LexerIdle ==
    /\ lines = << >>
    /\ pc = "idle"
    /\ flattenedLines = [ text |-> << >>, lineTerminators |-> << >>, flatLineTokens |-> << >> ]
    /\ flatIndex = 0
    /\ tokens = << >>
    /\ comments = << >>
    /\ reads = << >>
    /\ result = {}

\* the one empty ParserContext.State, before any call
ArenaInit ==
    /\ states = << empty >>
    /\ arrays = << >>
    /\ held = << << >> >>
    /\ issued = << << >> >>
    /\ last = [ op |-> "empty", state |-> 1, arg |-> {}, ret |-> {}, threw |-> FALSE ]
    /\ calls = 0

\* tryFrom is about to be called on some Lexer.State
LexInit ==
    /\ ArenaInit
    /\ \E n \in 0..MaxInputSize : \E k \in 0..(MaxInputSize - n) :
         \E pieces \in [1..k -> LinePieces] : \E cut \in Cuts(n, k) :
            \E terms \in [1..n -> Terminators] :
               lines = LinesOf(n, pieces, cut, terms)
    /\ pc = "tryFrom"
    /\ flattenedLines = [ text |-> << >>, lineTerminators |-> << >>, flatLineTokens |-> << >> ]
    /\ flatIndex = 0
    /\ tokens = << >>
    /\ comments = << >>
    /\ reads = << >>
    /\ result = {}

\* the assembly of one Lexer.State into a snapshot
LexSpec == LexInit /\ [][TryFrom]_vars

\* the same, run to completion: factory is a synchronous loop that nothing suspends
LexLive == LexInit /\ [][TryFrom]_vars /\ WF_vars(TryFrom)

Init == ArenaInit /\ LexerIdle

\* one more call, while the run's budget lasts
Call == calls < MaxCalls /\ calls' = calls + 1 /\ UNCHANGED lexVars

Next ==
    \/ \E a \in DOMAIN states :
         \E maybeParent \in { {} } \cup { {i} : i \in DOMAIN states[a].nodesById } :
            Call /\ AddChild(a, maybeParent)
    \/ \E a \in DOMAIN states : \E nodeId \in DOMAIN held[a] : \E astNode \in AstNodes :
            Call /\ EndContext(a, nodeId, astNode)
    \/ \E a \in DOMAIN states : \E nodeId \in DOMAIN held[a] :
            Call /\ DeleteContext(a, nodeId)
    \/ \E a \in DOMAIN states :
            Call /\ DeepCopy(a)

\* the calls a parser makes on its ParserContext states
Spec == Init /\ [][Next]_vars

====
